---- MODULE Spec2Model ----
(***************************************************************************)
(* A model of the entry segmentation and author-continuation pipeline of   *)
(* omeka_bib_to_zotero.py: split_entries (the Segmenter),                  *)
(* expand_repeated_authors (the Resolver), their composition in main,      *)
(* batch_parse_with_llm (the hand-over to the external normalizer), and    *)
(* the paragraph-iterating segmentation of tests/proposed_fixes.py.        *)
(*                                                                         *)
(* A text is a sequence of characters; a character is a one-character      *)
(* string, except for the few characters a TLA+ string literal cannot      *)
(* hold, which have names (EMDASH, NBSP, ...).  The regular expressions of  *)
(* the source are translated one by one into operators that compute what   *)
(* Python's backtracking matcher computes for them.                        *)
(***************************************************************************)
EXTENDS Integers, Sequences, FiniteSets, TLC

VARIABLES
    raw_text,      \* split_entries: the argument
    raw_blocks,    \* split_entries: re.split's result
    bi,            \* split_entries: number of blocks the for loop has consumed
    entries,       \* split_entries: the result list; expand_repeated_authors: the argument
    ei,            \* expand_repeated_authors: number of entries the for loop has consumed
    out,           \* expand_repeated_authors: the result list
    prev_author,   \* expand_repeated_authors: the remembered author (None or a text)
    pc,            \* where the running function is
    provider,      \* batch_parse_with_llm: the argument (None or a name)
    model,         \* batch_parse_with_llm: the argument (None or a name)
    batch_size,    \* batch_parse_with_llm: the argument
    results,       \* batch_parse_with_llm: the result list
    failed,        \* batch_parse_with_llm: the entries recorded as failed
    batch_i,       \* batch_parse_with_llm: i, the start of the next batch (0-based)
    api_key,       \* batch_parse_with_llm: os.getenv of the provider's key (None or a text)
    llm_calls,     \* what caller(messages) did, call by call
    failed_file,   \* failed_entries.txt: None, or the entries listed in it
    bib_heading,   \* fetch_entries_from_html: whether a Bibliography heading was found
    siblings,      \* fetch_entries_from_html: what follows the Bibliography heading
    si,            \* fetch_entries_from_html: number of nodes the running loop has consumed
    max_entries,   \* main: --max or the answer to the prompt (None or an integer)
    written,       \* main: the items written to the output file (None before the write)
    attempt,       \* call_openai_chat / call_openrouter_chat: attempt, the loop variable
    http_log,      \* what each requests.post of the call did, request by request
    delays         \* the arguments of the calls of time.sleep, in seconds, in order

\* The variables of batch_parse_with_llm and of fetch_entries_from_html.
llm_vars ==
    <<provider, model, batch_size, results, failed, batch_i, api_key, llm_calls, failed_file>>
html_vars == <<bib_heading, siblings, si>>

\* The variables of main and of call_openai_chat / call_openrouter_chat.
main_vars == <<max_entries, written>>
chat_vars == <<attempt, http_log, delays>>

vars ==
    <<raw_text, raw_blocks, bi, entries, ei, out, prev_author, pc,
      llm_vars, html_vars, main_vars, chat_vars>>

----------------------------------------------------------------------------
(* Characters and texts *)

\* The text of a string literal, one character per element.
Str(s) == [i \in 1..Len(s) |-> SubSeq(s, i, i)]

EMDASH == "<U+2014>"
NBSP == "<U+00A0>"
VT == "<U+000B>"
BEL == "<U+0007>"
BS == "<U+0008>"
NUL == "<U+0000>"
BACKQUOTE == "<U+0060>"
\* What indexing past the end of a text yields here: a value in no character class.
EOS == "<end>"

Upper == {"A","B","C","D","E","F","G","H","I","J","K","L","M",
          "N","O","P","Q","R","S","T","U","V","W","X","Y","Z"}
Lower == {"a","b","c","d","e","f","g","h","i","j","k","l","m",
          "n","o","p","q","r","s","t","u","v","w","x","y","z"}
Digit == {"0","1","2","3","4","5","6","7","8","9"}
OctDigit == {"0","1","2","3","4","5","6","7"}
\* \s of a str pattern, and the characters str.strip() removes (the members
\* that occur in the texts of this model).
Space == {" ", "\t", "\n", "\r", "\f", VT, NBSP}

At(s, i) == IF i \in 1..Len(s) THEN s[i] ELSE EOS

\* s[i..] (empty when i is past the end).
From(s, i) == SubSeq(s, i, Len(s))

\* The last index j >= i-1 with s[i..j] all in class C: a greedy C* from i.
RECURSIVE SpanEnd(_, _, _)
SpanEnd(s, i, C) == IF At(s, i) \in C THEN SpanEnd(s, i + 1, C) ELSE i - 1

\* The least element of a non-empty set of numbers, 0 for the empty set.
Least(S) == IF S = {} THEN 0 ELSE CHOOSE j \in S : \A k \in S : j <= k

\* The first index j >= i with s[j] = c, or 0.
IndexOf(s, c, i) == Least({j \in i..Len(s) : s[j] = c})

\* s with the character before it beside each character (EOS before the first).
WithPrevious(s) == [i \in 1..Len(s) |-> <<s[i], At(s, i - 1)>>]

\* The first index j >= i with s[j] not in Space, or Len(s) + 1.
RECURSIVE LStripStart(_, _)
LStripStart(s, i) ==
    IF i <= Len(s) /\ s[i] \in Space THEN LStripStart(s, i + 1) ELSE i

\* The last index j <= i with s[j] not in Space, or 0.
RECURSIVE RStripEnd(_, _)
RStripEnd(s, i) ==
    IF i >= 1 /\ s[i] \in Space THEN RStripEnd(s, i - 1) ELSE i

\* str.strip()
Strip(s) == SubSeq(s, LStripStart(s, 1), RStripEnd(s, Len(s)))

\* Whether p is a prefix of s.
StartsWith(s, p) == Len(p) <= Len(s) /\ SubSeq(s, 1, Len(p)) = p

\* Whether p is a suffix of s.
EndsWith(s, p) == Len(p) <= Len(s) /\ SubSeq(s, Len(s) - Len(p) + 1, Len(s)) = p

----------------------------------------------------------------------------
(* expand_repeated_authors: the ditto marker *)

\* The length of the (_{3,}|EMDASH{2,}|EMDASH) that starts e, or 0.
MarkerLen(e) ==
    LET u == SpanEnd(e, 1, {"_"})
        d == SpanEnd(e, 1, {EMDASH})
    IN  IF u >= 3 THEN u ELSE d

\* The length of what r'^(_{3,}|EMDASH{2,}|EMDASH)\.?' matches at the start
\* of e, or 0: the marker and its optional period.
MarkerEnd(e) ==
    LET m == MarkerLen(e)
    IN  IF m = 0 THEN 0 ELSE IF At(e, m + 1) = "." THEN m + 1 ELSE m

\* re.match(r'^(_{3,}|EMDASH{2,}|EMDASH)\.?\s', e) succeeds.
DittoMatch(e) ==
    LET m == MarkerLen(e)
    IN  /\ m > 0
        /\ \/ At(e, m + 1) = "." /\ At(e, m + 2) \in Space
           \/ At(e, m + 1) \in Space

----------------------------------------------------------------------------
(* expand_repeated_authors: re.sub's replacement template *)

\* chr(32) .. chr(126)
AsciiPrintable ==
    Str(" !\"#$%&'()*+,-./0123456789:;<=>?@ABCDEFGHIJKLMNOPQRSTUVWXYZ[\\]^_")
        \o <<BACKQUOTE>> \o Str("abcdefghijklmnopqrstuvwxyz{|}~")

\* chr(n) for n in 0..255.
Chr(n) ==
    CASE n \in 32..126 -> AsciiPrintable[n - 31]
      [] n = 0 -> NUL
      [] n = 7 -> BEL
      [] n = 8 -> BS
      [] n = 9 -> "\t"
      [] n = 10 -> "\n"
      [] n = 11 -> VT
      [] n = 12 -> "\f"
      [] n = 13 -> "\r"
      [] n = 160 -> NBSP
      [] OTHER -> "<chr " \o ToString(n) \o ">"

DigitVal(c) == CHOOSE n \in 0..9 : Str("0123456789")[n + 1] = c

\* int(s, base) of a text of digits.
RECURSIVE IntValue(_, _)
IntValue(s, base) ==
    IF s = <<>> THEN 0
    ELSE IntValue(SubSeq(s, 1, Len(s) - 1), base) * base + DigitVal(s[Len(s)])

\* sre_parse.ESCAPES, as far as a template uses it: the letters with a meaning.
EscapeLetters == {"a", "b", "f", "n", "r", "t", "v", "\\"}
Escape(c) ==
    CASE c = "a" -> BEL
      [] c = "b" -> BS
      [] c = "f" -> "\f"
      [] c = "n" -> "\n"
      [] c = "r" -> "\r"
      [] c = "t" -> "\t"
      [] c = "v" -> VT
      [] c = "\\" -> "\\"

\* The outcome of an operation that may raise: a value, or an exception.
Ok(v) == [ok |-> TRUE, val |-> v]
Raised == [ok |-> FALSE, val |-> <<>>]
Cons(prefix, r) == IF r.ok THEN Ok(prefix \o r.val) ELSE r

\* The number of groups of the ditto pattern: what a template may refer to.
NumGroups == 1

\* sre_parse.parse_template and the expansion of its result, from position
\* i of template t, for a match whose whole text is g0 and whose group 1 is
\* g1.  A backslash starts an escape: \g<n> and \n (n a group number) insert
\* a group, \0.. and three octal digits a character code, a letter of
\* ESCAPES its character, any other ASCII letter is an error, and anything
\* else stays as written.  (A group name that is not a decimal number is
\* taken to raise: the pattern has no named group.)
RECURSIVE ExpandTemplate(_, _, _, _)
ExpandTemplate(t, i, g0, g1) ==
    LET Group(n) == IF n = 0 THEN g0 ELSE g1
        Rest(j) == ExpandTemplate(t, j, g0, g1)
    IN
    IF i > Len(t) THEN Ok(<<>>)
    ELSE IF t[i] # "\\" THEN Cons(<<t[i]>>, Rest(i + 1))
    ELSE IF i = Len(t) THEN Raised
    ELSE LET c == t[i + 1] IN
      CASE c = "g" ->
             LET close == IndexOf(t, ">", i + 3)
                 name == SubSeq(t, i + 3, close - 1)
             IN  IF At(t, i + 2) # "<" \/ close = 0 \/ close = i + 3 THEN Raised
                 ELSE IF \E k \in 1..Len(name) : name[k] \notin Digit THEN Raised
                 ELSE IF IntValue(name, 10) > NumGroups THEN Raised
                 ELSE Cons(Group(IntValue(name, 10)), Rest(close + 1))
        [] c = "0" ->
             LET n1 == IF At(t, i + 2) \in OctDigit THEN 1 ELSE 0
                 n2 == IF n1 = 1 /\ At(t, i + 3) \in OctDigit THEN 1 ELSE 0
                 last == i + 1 + n1 + n2
             IN  Cons(<<Chr(IntValue(SubSeq(t, i + 1, last), 8) % 256)>>, Rest(last + 1))
        [] c \in Digit \ {"0"} ->
             IF At(t, i + 2) \in Digit
             THEN IF c \in OctDigit /\ At(t, i + 2) \in OctDigit /\ At(t, i + 3) \in OctDigit
                  THEN LET code == IntValue(SubSeq(t, i + 1, i + 3), 8)
                       IN  IF code > 255 THEN Raised
                           ELSE Cons(<<Chr(code)>>, Rest(i + 4))
                  ELSE IF IntValue(SubSeq(t, i + 1, i + 2), 10) > NumGroups THEN Raised
                  ELSE Cons(Group(IntValue(SubSeq(t, i + 1, i + 2), 10)), Rest(i + 3))
             ELSE IF DigitVal(c) > NumGroups THEN Raised
             ELSE Cons(Group(DigitVal(c)), Rest(i + 2))
        [] c \in EscapeLetters -> Cons(<<Escape(c)>>, Rest(i + 2))
        [] c \in Upper \cup Lower -> Raised
        [] OTHER -> Cons(<<"\\", c>>, Rest(i + 2))

\* Mutant of the replacement: the author without the period after it.
SubDittoNoPeriod(author, e) ==
    LET r == ExpandTemplate(author, 1, SubSeq(e, 1, MarkerEnd(e)), SubSeq(e, 1, MarkerLen(e)))
    IN  IF r.ok THEN Ok(r.val \o From(e, MarkerEnd(e) + 1)) ELSE r

\* re.sub(r'^(_{3,}|EMDASH{2,}|EMDASH)\.?', prev_author + '.', e, count=1)
\* for an e the ditto pattern matches: the template's expansion, then the
\* rest of e.
SubDitto(author, e) ==
    LET g0 == SubSeq(e, 1, MarkerEnd(e))
        g1 == SubSeq(e, 1, MarkerLen(e))
        r == ExpandTemplate(author \o <<".">>, 1, g0, g1)
    IN  IF r.ok THEN Ok(r.val \o From(e, MarkerEnd(e) + 1)) ELSE r

----------------------------------------------------------------------------
(* expand_repeated_authors: the three author patterns *)

\* [a-zA-Z'\-] and [a-zA-Z\.\s\-]
SurnameChar == Upper \cup Lower \cup {"'", "-"}
GivenChar == Upper \cup Lower \cup Space \cup {".", "-"}

\* r'\.\s+[\[\d]' matches at position k of e.
YearAhead(e, k) ==
    LET w == SpanEnd(e, k + 1, Space)
    IN  At(e, k) = "." /\ w >= k + 1 /\ At(e, w + 1) \in Digit \cup {"["}

\* Pattern 1:
\*   r'^([A-Z][a-zA-Z\'\-]+(?:\s+[A-Z]\.?)?,\s+[A-Z][a-zA-Z\.\s\-]+?)\.\s+[\[\d]'
\* The index where group 1 ends, or 0 when the pattern does not match.  The
\* surname run, the optional middle initial and the comma are found in one
\* way only; the given name is lazy, so it ends at the first place from
\* which the rest matches.
Pattern1End(e) ==
    LET a == SpanEnd(e, 2, SurnameChar)
        s == SpanEnd(e, a + 1, Space)
        \* the comma: after the optional \s+[A-Z]\.? when that matches, else after the surname
        c == IF s >= a + 1 /\ At(e, s + 1) \in Upper
             THEN IF At(e, s + 2) = "." /\ At(e, s + 3) = "," THEN s + 3
                  ELSE IF At(e, s + 2) = "," THEN s + 2
                  ELSE 0
             ELSE IF At(e, a + 1) = "," THEN a + 1
             ELSE 0
        w == SpanEnd(e, c + 1, Space)
        g == w + 1
    IN  IF At(e, 1) \in Upper /\ a >= 2 /\ c > 0 /\ w >= c + 1 /\ At(e, g) \in Upper
        THEN Least({j \in (g + 1)..Len(e) :
                       SpanEnd(e, g + 1, GivenChar) >= j /\ YearAhead(e, j + 1)})
        ELSE 0

\* r'\s*\[[^\]]+\]\.\s+[\d\[]' matches at position k of e.
BracketAhead(e, k) ==
    LET s == SpanEnd(e, k, Space)
        close == IndexOf(e, "]", s + 2)
    IN  At(e, s + 1) = "[" /\ close >= s + 3 /\ YearAhead(e, close + 1)

\* Pattern 2: r'^([^\.]+?)\s*\[[^\]]+\]\.\s+[\d\[]'
\* The index where group 1 ends, or 0: the first j >= 1 with no period in
\* e[1..j] from which the bracketed part matches.
Pattern2End(e) ==
    LET dot == IndexOf(e, ".", 1)
        last == IF dot = 0 THEN Len(e) ELSE dot - 1
    IN  Least({j \in 1..last : BracketAhead(e, j + 1)})

\* Pattern 3: r'^([A-Z][^\.]+)\.\s+'
\* The index where group 1 ends, or 0: the character before the first period.
Pattern3End(e) ==
    LET dot == IndexOf(e, ".", 1)
    IN  IF At(e, 1) \in Upper /\ dot >= 3 /\ At(e, dot + 1) \in Space
        THEN dot - 1
        ELSE 0

\* '$' matches at the end of c, and before a line feed that ends c.
AtDollar(c, t) == t = Len(c) \/ (t = Len(c) - 1 /\ c[Len(c)] = "\n")

\* Where r'\s+\d{4}[a-z]?$' ends when it matches from position s of c, or 0.
YearSuffixEnd(c, s) ==
    LET w == SpanEnd(c, s, Space)
        t == IF At(c, w + 5) \in Lower THEN w + 5 ELSE w + 4
    IN  IF w >= s /\ (\A k \in 1..4 : At(c, w + k) \in Digit) /\ AtDollar(c, t)
        THEN t
        ELSE 0

\* Mutant of the year removal: the candidate is left as it is.
StripYearNever(c) == c

\* re.sub(r'\s+\d{4}[a-z]?$', '', c): the leftmost match is removed.
StripYear(c) ==
    LET s == Least({k \in 1..Len(c) : YearSuffixEnd(c, k) > 0})
    IN  IF s = 0 THEN c
        ELSE SubSeq(c, 1, s - 1) \o From(c, YearSuffixEnd(c, s) + 1)

\* prev_author: None, or a text.
None == [some |-> FALSE, val |-> <<>>]
Some(v) == [some |-> TRUE, val |-> v]

\* Python's truth value of prev_author: neither None nor the empty string.
Truthy(a) == a.some /\ a.val # <<>>

\* Lines 220-236: prev_author after entry e, the first pattern that matches
\* deciding; none matching leaves it as it was.
ExtractAuthor(prev, e) ==
    IF Pattern1End(e) > 0 THEN Some(Strip(SubSeq(e, 1, Pattern1End(e))))
    ELSE IF Pattern2End(e) > 0 THEN Some(Strip(SubSeq(e, 1, Pattern2End(e))))
    ELSE IF Pattern3End(e) > 0 THEN Some(StripYear(Strip(SubSeq(e, 1, Pattern3End(e)))))
    ELSE prev

\* Mutant of the ditto replacement: prev_author is not tested, and None is
\* used as an empty author.
SubstitutedUntested(prev, e) ==
    IF DittoMatch(e) THEN SubDitto(prev.val, e) ELSE Ok(e)

\* Mutant of the ditto replacement: the white space that line 210 requires
\* after the marker is not tested.
SubstitutedNoSpaceTest(prev, e) ==
    IF MarkerLen(e) > 0 /\ Truthy(prev) THEN SubDitto(prev.val, e) ELSE Ok(e)

\* Lines 210-214: the entry after the ditto replacement, or the exception
\* re.sub raises.
Substituted(prev, e) ==
    IF DittoMatch(e) /\ Truthy(prev) THEN SubDitto(prev.val, e) ELSE Ok(e)

\* batch_parse_with_llm and fetch_entries_from_html not called.
LlmIdle ==
    /\ provider = None
    /\ model = None
    /\ batch_size = 0
    /\ results = <<>>
    /\ failed = <<>>
    /\ batch_i = 0
    /\ api_key = None
    /\ llm_calls = <<>>
    /\ failed_file = None

HtmlIdle ==
    /\ bib_heading = FALSE
    /\ siblings = <<>>
    /\ si = 0

\* main past its first two stages not run, and no chat call made.
NoMax == [some |-> FALSE, val |-> 0]
MainIdle ==
    /\ max_entries = NoMax
    /\ written = None

ChatIdle ==
    /\ attempt = 0
    /\ http_log = <<>>
    /\ delays = <<>>

----------------------------------------------------------------------------
(* expand_repeated_authors: the inputs of the model *)

\* The longest input list.
MaxEntries == 3

\* "Surname, Given" names, years and the texts that follow them.
Names == {Str("Smith, Jane"), Str("Lee, J"), Str("De Luca, Anna")}
FirstRest == Str(". 1950. T.")
FirstForm == {n \o FirstRest : n \in Names}
DittoMark == Str("______")
DittoForm == {DittoMark \o Str(". 1955. U."), DittoMark \o Str(". 1960a. V.")}

\* Entries that start with a ditto marker in its other shapes, and entries
\* that only look like it.
OtherDittos ==
    { Str("___ 1960. V."),
      Str("___. B. 1955."),
      <<EMDASH>> \o Str(". 1955. U."),
      <<EMDASH, EMDASH, EMDASH>> \o Str(" 1960. V.") }
NearDittos == {Str("__. 1950. X."), Str("___.1950")}

\* An entry with a middle initial and a bracketed year (pattern 1).
InitialEntries == {Str("Smith A., Jane. [1903]. T.")}

\* Entries whose author pattern 2 or pattern 3 finds; pattern 2 takes
\* whatever precedes the bracket, a ditto marker and white space included.
BracketEntries ==
    {Str("Rossi [pseud]. 1940. T."), Str(" [x]. 1950."), Str("___ x [y]. 1950.")}
FallbackEntries == {Str("Anon 1940a. T."), Str("Anon 1950 1960. T.")}

\* Entries whose author holds a backslash: an escape when the author is
\* used as re.sub's template.
BackslashEntries == {Str("A\\q. x"), Str("A\\\\b. x"), Str("A\\1. x")}

\* Entries no pattern matches.
PlainEntries == {Str("lower case. x"), <<>>}

EntrySet ==
    FirstForm \cup DittoForm \cup OtherDittos \cup NearDittos \cup InitialEntries
        \cup BracketEntries \cup FallbackEntries \cup BackslashEntries \cup PlainEntries

\* Every list of at most n entries.
Lists(n) == UNION {[1..k -> EntrySet] : k \in 0..n}

----------------------------------------------------------------------------
(* expand_repeated_authors: the loop *)

\* The call expand_repeated_authors(entries): out = [], prev_author = None.
InitExpand ==
    /\ raw_text = <<>>
    /\ raw_blocks = <<>>
    /\ bi = 0
    /\ entries \in Lists(MaxEntries)
    /\ ei = 0
    /\ out = <<>>
    /\ prev_author = None
    /\ pc = "expand_loop"
    /\ LlmIdle
    /\ HtmlIdle
    /\ MainIdle
    /\ ChatIdle

\* Mutant of the loop body: a ditto entry that cannot be resolved is skipped
\* instead of appended.
ExpandStepSkipsUnresolved ==
    /\ pc = "expand_loop"
    /\ ei < Len(entries)
    /\ LET r == Substituted(prev_author, entries[ei + 1])
       IN  /\ r.ok
           /\ out' = IF DittoMatch(r.val) THEN out ELSE Append(out, r.val)
           /\ prev_author' = ExtractAuthor(prev_author, r.val)
    /\ ei' = ei + 1
    /\ UNCHANGED <<raw_text, raw_blocks, bi, entries, pc, llm_vars, html_vars, main_vars, chat_vars>>

\* One iteration of the for loop (lines 208-238) that completes: the ditto
\* replacement, the author extraction on its result, the append.
ExpandStep ==
    /\ pc = "expand_loop"
    /\ ei < Len(entries)
    /\ LET r == Substituted(prev_author, entries[ei + 1])
       IN  /\ r.ok
           /\ out' = Append(out, r.val)
           /\ prev_author' = ExtractAuthor(prev_author, r.val)
    /\ ei' = ei + 1
    /\ UNCHANGED <<raw_text, raw_blocks, bi, entries, pc, llm_vars, html_vars, main_vars, chat_vars>>

\* One iteration in which re.sub raises re.error: the exception leaves the
\* function, and nothing is returned.
ExpandRaise ==
    /\ pc = "expand_loop"
    /\ ei < Len(entries)
    /\ ~Substituted(prev_author, entries[ei + 1]).ok
    /\ ei' = ei + 1
    /\ pc' = "expand_raised"
    /\ UNCHANGED <<raw_text, raw_blocks, bi, entries, out, prev_author, llm_vars, html_vars, main_vars, chat_vars>>

\* Line 240: return out.
ExpandReturn ==
    /\ pc = "expand_loop"
    /\ ei = Len(entries)
    /\ pc' = "expand_done"
    /\ UNCHANGED <<raw_text, raw_blocks, bi, entries, ei, out, prev_author, llm_vars, html_vars, main_vars, chat_vars>>

NextExpand == ExpandStep \/ ExpandRaise \/ ExpandReturn

Spec == InitExpand /\ [][NextExpand]_vars

----------------------------------------------------------------------------
(* split_entries: normalisation, splitting, flattening and the filters *)

\* raw_text.replace('\xa0', ' ')
ReplaceNbsp(s) == [i \in 1..Len(s) |-> IF s[i] = NBSP THEN " " ELSE s[i]]

\* re.sub(r'\r\n?', '\n', text): a line feed that follows a carriage return
\* goes with it, and every carriage return becomes a line feed.
\* Mutant of the line-ending normalisation: every carriage return becomes a
\* line feed, the line feed after it staying (re.sub(r'\r', '\n', text)).
NormalizeLineEndingsCrOnly(s) == [k \in 1..Len(s) |-> IF s[k] = "\r" THEN "\n" ELSE s[k]]

NotLfAfterCr(p) == ~(p[1] = "\n" /\ p[2] = "\r")
NormalizeLineEndings(s) ==
    LET kept == SelectSeq(WithPrevious(s), NotLfAfterCr)
    IN  [i \in 1..Len(kept) |-> IF kept[i][1] = "\r" THEN "\n" ELSE kept[i][1]]

\* Mutant of the separator: two line feeds are enough (re.split(r'\n\n+', text)).
SeparatorStartTwo(s) ==
    Least({k \in 1..(Len(s) - 1) : s[k] = "\n" /\ s[k + 1] = "\n"})

\* The first index where three line feeds start, or 0.
SeparatorStart(s) ==
    Least({k \in 1..(Len(s) - 2) : s[k] = "\n" /\ s[k + 1] = "\n" /\ s[k + 2] = "\n"})

\* re.split(r'\n\n\n+', text): the pieces between the runs of three or
\* more line feeds, empty pieces included.
RECURSIVE SplitOnBlankLines(_)
SplitOnBlankLines(s) ==
    LET i == SeparatorStart(s)
    IN  IF i = 0 THEN <<s>>
        ELSE <<SubSeq(s, 1, i - 1)>>
                 \o SplitOnBlankLines(From(s, SpanEnd(s, i, {"\n"}) + 1))

\* re.sub(r'\s+', ' ', s): of each run of white space its first character
\* stays, as a space.
\* Mutant of the white space collapse: white space is replaced two
\* characters at a time (re.sub(r'\s\s?', ' ', s)).
EvenInRun(p) == ~(p[1] \in Space /\ p[2] % 2 = 1)
CollapseSpacePairs(s) ==
    LET Before(k) == {0} \cup {j \in 1..(k - 1) : s[j] \notin Space}
        LastText(k) == CHOOSE j \in Before(k) : \A h \in Before(k) : h <= j
        marked == [k \in 1..Len(s) |-> <<s[k], k - 1 - LastText(k)>>]
        kept == SelectSeq(marked, EvenInRun)
    IN  [k \in 1..Len(kept) |-> IF kept[k][1] \in Space THEN " " ELSE kept[k][1]]

NotSpaceAfterSpace(p) == ~(p[1] \in Space /\ p[2] \in Space)
CollapseSpace(s) ==
    LET kept == SelectSeq(WithPrevious(s), NotSpaceAfterSpace)
    IN  [i \in 1..Len(kept) |-> IF kept[i][1] \in Space THEN " " ELSE kept[i][1]]

\* Line 180: re.sub(r'\s+', ' ', block).strip()
Flatten(block) == Strip(CollapseSpace(block))

UpperSeq == Str("ABCDEFGHIJKLMNOPQRSTUVWXYZ")
LowerSeq == Str("abcdefghijklmnopqrstuvwxyz")
LowerChar(c) ==
    IF c \in Upper THEN LowerSeq[CHOOSE k \in 1..26 : UpperSeq[k] = c] ELSE c

\* str.lower()
ToLower(s) == [i \in 1..Len(s) |-> LowerChar(s[i])]

\* Line 183: entry_text.lower().startswith("search using this query type")
IsSearchBoilerplate(t) == StartsWith(ToLower(t), Str("search using this query type"))

NavWords ==
    { Str("home"), Str("about"), Str("browse"), Str("search"), Str("contact"),
      Str("map"), Str("essay"), Str("essays"), Str("collection"), Str("collections") }

\* Line 185: re.match(r'^(home|about|browse|search|contact|map|essays?|collections?)(\s|$)',
\*                    entry_text, re.IGNORECASE)
IsNavLabel(t) ==
    \E w \in NavWords :
        /\ StartsWith(ToLower(t), w)
        /\ At(t, Len(w) + 1) \in Space \/ AtDollar(t, Len(w))

\* re.search(r'\d{4}', entry_text)
HasFourDigits(t) ==
    \E i \in 1..(Len(t) - 3) : \A k \in 0..3 : t[i + k] \in Digit

\* The length under which a block without a 4-digit sequence is dropped.
MinEntryLen == 20

\* Mutants of the short-fragment test: the length compared with <=, and
\* the exemption of blocks with a 4-digit sequence forgotten.
IsShortFragmentInclusive(t) == Len(t) <= MinEntryLen /\ ~HasFourDigits(t)
IsShortFragmentNoYear(t) == Len(t) < MinEntryLen

\* Line 188: len(entry_text) < 20 and not re.search(r'\d{4}', entry_text)
IsShortFragment(t) == Len(t) < MinEntryLen /\ ~HasFourDigits(t)

\* Mutant of the loop body: the navigation-word filter of line 185 left out.
BlockEntriesNoNavFilter(block) ==
    LET stripped == Strip(block)
        entry_text == Flatten(stripped)
    IN  IF stripped = <<>> THEN <<>>
        ELSE IF IsSearchBoilerplate(entry_text) THEN <<>>
        ELSE IF IsShortFragment(entry_text) THEN <<>>
        ELSE <<entry_text>>

\* Mutant of the loop body: every block is flattened and appended, none
\* skipped.
BlockEntriesKeepAll(block) == <<Flatten(block)>>

\* Lines 175-191, for one block: what it adds to entries: nothing for a
\* block that is blank or that a filter drops, else its flattened text.
BlockEntries(block) ==
    LET stripped == Strip(block)
        entry_text == Flatten(stripped)
    IN  IF stripped = <<>> THEN <<>>
        ELSE IF IsSearchBoilerplate(entry_text) THEN <<>>
        ELSE IF IsNavLabel(entry_text) THEN <<>>
        ELSE IF IsShortFragment(entry_text) THEN <<>>
        ELSE <<entry_text>>

\* split_entries(raw_text) as a whole: lines 165-193.
RECURSIVE EntriesOf(_)
EntriesOf(blocks) ==
    IF blocks = <<>> THEN <<>>
    ELSE BlockEntries(Head(blocks)) \o EntriesOf(Tail(blocks))

SplitEntries(raw) == EntriesOf(SplitOnBlankLines(NormalizeLineEndings(ReplaceNbsp(raw))))

----------------------------------------------------------------------------
(* split_entries: the inputs of the model *)

\* The most blocks of text a raw text is put together from.
MaxBlocks == 2

\* Blocks of text: citations long and short, with and without a year,
\* wrapped over lines, navigation labels, blank blocks.
BlockSet ==
    { Str("Entry One."),
      Str("Entry\nTwo continued."),
      Str("Doe, J. 1999."),
      Str("Doe,") \o <<NBSP>> \o Str("J.\r\n1999."),
      Str("Smith, Jane. A Title."),
      Str("Homer, A. 1950. Iliad."),
      Str("Home"),
      Str("Browse our site"),
      Str("Map 1999"),
      Str("ABOUT the bibliography 1999"),
      Str("Search using this query type 1999"),
      Str("abc 123 456"),
      Str(" \t"),
      <<>> }

\* What stands between two blocks: line breaks that separate entries, and
\* line breaks and white space that do not.
SepSet ==
    { Str("\n"), Str("\n\n"), Str("\n\n\n"), Str("\n\n\n\n"),
      Str("\r\n\r\n\r\n"), Str("\n \n\n") }

\* Every text of at most n blocks with something of SepSet between them.
RECURSIVE Texts(_)
Texts(n) ==
    IF n = 0 THEN {<<>>}
    ELSE IF n = 1 THEN BlockSet
    ELSE Texts(n - 1)
           \cup {t \o s \o b : t \in Texts(n - 1), s \in SepSet, b \in BlockSet}

----------------------------------------------------------------------------
(* split_entries: the function *)

\* The call split_entries(raw_text).
InitSplit ==
    /\ raw_text \in Texts(MaxBlocks)
    /\ raw_blocks = <<>>
    /\ bi = 0
    /\ entries = <<>>
    /\ ei = 0
    /\ out = <<>>
    /\ prev_author = None
    /\ pc = "split_start"
    /\ LlmIdle
    /\ HtmlIdle
    /\ MainIdle
    /\ ChatIdle

\* Lines 165-173: normalise, split into raw_blocks, entries = [].
SplitPrepare ==
    /\ pc = "split_start"
    /\ raw_blocks' = SplitOnBlankLines(NormalizeLineEndings(ReplaceNbsp(raw_text)))
    /\ pc' = "split_loop"
    /\ UNCHANGED <<raw_text, bi, entries, ei, out, prev_author, llm_vars, html_vars, main_vars, chat_vars>>

\* Mutant of the loop: what a block yields is put in front of the list.
SplitStepPrepends ==
    /\ pc = "split_loop"
    /\ bi < Len(raw_blocks)
    /\ entries' = BlockEntries(raw_blocks[bi + 1]) \o entries
    /\ bi' = bi + 1
    /\ UNCHANGED <<raw_text, raw_blocks, ei, out, prev_author, pc, llm_vars, html_vars, main_vars, chat_vars>>

\* One iteration of the for loop (lines 174-191).
SplitStep ==
    /\ pc = "split_loop"
    /\ bi < Len(raw_blocks)
    /\ entries' = entries \o BlockEntries(raw_blocks[bi + 1])
    /\ bi' = bi + 1
    /\ UNCHANGED <<raw_text, raw_blocks, ei, out, prev_author, pc, llm_vars, html_vars, main_vars, chat_vars>>

\* Line 193: return entries.
SplitReturn ==
    /\ pc = "split_loop"
    /\ bi = Len(raw_blocks)
    /\ pc' = "split_done"
    /\ UNCHANGED <<raw_text, raw_blocks, bi, entries, ei, out, prev_author, llm_vars, html_vars, main_vars, chat_vars>>

NextSplit == SplitPrepare \/ SplitStep \/ SplitReturn

SpecSplit == InitSplit /\ [][NextSplit]_vars

----------------------------------------------------------------------------
(* main: split_entries, then expand_repeated_authors on its result *)

\* Blocks for the two functions in a row: citations with an author, ditto
\* entries, a navigation label, and citations whose author holds a backslash.
PipelineBlockSet ==
    { Str("Smith, Jane. 1950. T."),
      Str("______. 1955. U."),
      Str("______.\n1960a.  V."),
      Str("Home"),
      Str("A\\n. 1940. T."),
      Str("A\\q. 1940. T.") }

\* Every text of at most n blocks of B with something of SepSet between them.
RECURSIVE TextsOf(_, _)
TextsOf(B, n) ==
    IF n = 0 THEN {<<>>}
    ELSE IF n = 1 THEN B
    ELSE TextsOf(B, n - 1)
           \cup {t \o sep \o b : t \in TextsOf(B, n - 1), sep \in SepSet, b \in B}

\* main has read the raw text and calls split_entries(raw) (line 687).
InitMain ==
    /\ raw_text \in TextsOf(PipelineBlockSet, MaxBlocks)
    /\ raw_blocks = <<>>
    /\ bi = 0
    /\ entries = <<>>
    /\ ei = 0
    /\ out = <<>>
    /\ prev_author = None
    /\ pc = "split_start"
    /\ LlmIdle
    /\ HtmlIdle
    /\ MainIdle
    /\ ChatIdle

\* Line 688: entries = expand_repeated_authors(entries), on what
\* split_entries returned: the call starts with out = [], prev_author = None.
MainExpand ==
    /\ pc = "split_done"
    /\ ei' = 0
    /\ out' = <<>>
    /\ prev_author' = None
    /\ pc' = "expand_loop"
    /\ UNCHANGED <<raw_text, raw_blocks, bi, entries, llm_vars, html_vars, main_vars, chat_vars>>

NextMain == NextSplit \/ MainExpand \/ NextExpand

SpecMain == InitMain /\ [][NextMain]_vars

----------------------------------------------------------------------------
(* tests/proposed_fixes.py: fetch_entries_from_html, the segmentation that
   iterates the paragraphs of the page *)

\* The length a paragraph's text must exceed to be kept (line 157).
MinParagraphLen == 10

\* The number of entries above which the fallback loop stops (line 183).
FallbackCap == 2000

\* Lines 153-155: p.get_text(" ", strip=True), then re.sub(r'\s+', ' ', text),
\* for a paragraph whose content is the one text t.
ParagraphText(t) == CollapseSpace(Strip(t))

\* Lines 157-161, for the content t of one paragraph: what it adds to entries.
ParagraphEntries(t) ==
    LET text == ParagraphText(t)
    IN  IF text # <<>> /\ Len(text) > MinParagraphLen
        THEN IF IsSearchBoilerplate(text) THEN <<>> ELSE <<text>>
        ELSE <<>>

\* Lines 165-171 and 175-181: the entries of a list of paragraphs.
RECURSIVE ParagraphsEntries(_)
ParagraphsEntries(ps) ==
    IF ps = <<>> THEN <<>>
    ELSE ParagraphEntries(Head(ps)) \o ParagraphsEntries(Tail(ps))

\* A node after the heading: its tag name and the contents of the
\* paragraphs it is or holds.
Node(name, texts) == [name |-> name, texts |-> texts]

\* bib_heading.find_all_next("p"): the paragraphs of all the nodes.
RECURSIVE AllParagraphs(_)
AllParagraphs(nodes) ==
    IF nodes = <<>> THEN <<>>
    ELSE Head(nodes).texts \o AllParagraphs(Tail(nodes))

\* The most nodes after the heading.
MaxSiblings == 2

\* The nodes of the model: a paragraph with each block of text of BlockSet,
\* a ten-character citation, div containers, a heading that ends the
\* bibliography, and a list.
NodeSet ==
    {Node("p", <<b>>) : b \in BlockSet \cup {Str("Doe 1999. ")}}
      \cup { Node("div", <<>>),
             Node("div", <<Str("Doe, J. 1999."), Str("Home")>>),
             Node("div", <<Str("Browse our site")>>),
             Node("h2", <<>>),
             Node("ul", <<>>) }

RECURSIVE NodeLists(_)
NodeLists(n) ==
    IF n = 0 THEN {<<>>}
    ELSE NodeLists(n - 1)
           \cup {Append(l, x) : l \in {m \in NodeLists(n - 1) : Len(m) = n - 1}, x \in NodeSet}

\* The call fetch_entries_from_html(url), the page fetched and parsed and the
\* heading looked for (lines 129-138).
InitFetch ==
    /\ raw_text = <<>>
    /\ raw_blocks = <<>>
    /\ bi = 0
    /\ entries = <<>>
    /\ ei = 0
    /\ out = <<>>
    /\ prev_author = None
    /\ pc = "fetch_start"
    /\ LlmIdle
    /\ MainIdle
    /\ ChatIdle
    /\ bib_heading \in BOOLEAN
    /\ siblings \in NodeLists(MaxSiblings)
    /\ si = 0

\* Lines 140-141: no heading, ValueError.
FetchNoHeading ==
    /\ pc = "fetch_start"
    /\ ~bib_heading
    /\ pc' = "fetch_raised"
    /\ UNCHANGED <<raw_text, raw_blocks, bi, entries, ei, out, prev_author, llm_vars, html_vars, main_vars, chat_vars>>

\* Line 144: entries = [].
FetchStart ==
    /\ pc = "fetch_start"
    /\ bib_heading
    /\ entries' = <<>>
    /\ pc' = "fetch_loop"
    /\ UNCHANGED <<raw_text, raw_blocks, bi, ei, out, prev_author, llm_vars, html_vars, main_vars, chat_vars>>

\* One iteration of the loop over the siblings (lines 145-171) for a node
\* that is not a major heading: a paragraph or the paragraphs of a div are
\* filtered and appended, any other node is passed over.
FetchStep ==
    /\ pc = "fetch_loop"
    /\ si < Len(siblings)
    /\ LET sib == siblings[si + 1]
       IN  /\ sib.name \notin {"h1", "h2"}
           /\ entries' = IF sib.name \in {"p", "div"}
                         THEN entries \o ParagraphsEntries(sib.texts)
                         ELSE entries
    /\ si' = si + 1
    /\ UNCHANGED <<raw_text, raw_blocks, bi, ei, out, prev_author, pc, llm_vars, bib_heading, siblings, main_vars, chat_vars>>

\* The loop ends, at a major heading (lines 147-148) or after the last
\* node; line 173: with no entry so far the fallback loop starts.
FetchLoopEnd ==
    /\ pc = "fetch_loop"
    /\ IF si < Len(siblings) THEN siblings[si + 1].name \in {"h1", "h2"} ELSE TRUE
    /\ pc' = IF entries = <<>> THEN "fetch_fallback" ELSE "fetch_return"
    /\ si' = 0
    /\ UNCHANGED <<raw_text, raw_blocks, bi, entries, ei, out, prev_author, llm_vars, bib_heading, siblings, main_vars, chat_vars>>

\* One iteration of the fallback loop (lines 175-184) over every paragraph
\* after the heading.
FetchFallbackStep ==
    /\ pc = "fetch_fallback"
    /\ si < Len(AllParagraphs(siblings))
    /\ entries' = entries \o ParagraphEntries(AllParagraphs(siblings)[si + 1])
    /\ si' = si + 1
    /\ pc' = IF Len(entries') > FallbackCap THEN "fetch_return" ELSE "fetch_fallback"
    /\ UNCHANGED <<raw_text, raw_blocks, bi, ei, out, prev_author, llm_vars, bib_heading, siblings, main_vars, chat_vars>>

FetchFallbackEnd ==
    /\ pc = "fetch_fallback"
    /\ si = Len(AllParagraphs(siblings))
    /\ pc' = "fetch_return"
    /\ UNCHANGED <<raw_text, raw_blocks, bi, entries, ei, out, prev_author, llm_vars, html_vars, main_vars, chat_vars>>

\* Line 186: return entries.
FetchReturn ==
    /\ pc = "fetch_return"
    /\ pc' = "fetch_done"
    /\ UNCHANGED <<raw_text, raw_blocks, bi, entries, ei, out, prev_author, llm_vars, html_vars, main_vars, chat_vars>>

NextFetch ==
    \/ FetchNoHeading \/ FetchStart \/ FetchStep \/ FetchLoopEnd
    \/ FetchFallbackStep \/ FetchFallbackEnd \/ FetchReturn

SpecFetch == InitFetch /\ [][NextFetch]_vars

----------------------------------------------------------------------------
(* batch_parse_with_llm: the hand-over of the entries to the LLM *)

\* The notes of the three stub records (lines 348, 414, 431).
NoteRaw == "Raw citation preserved in title; enable --use-llm to parse into structured fields."
NoteIncomplete == "LLM returned incomplete batch; raw citation preserved in title. Consider re-processing individually."
NoteFailed == "LLM parse failed; raw citation placed in title."

\* Mutant of the stub record: the title loses its last character.
StubClipped(e, note) ==
    [type |-> "manuscript", title |-> SubSeq(e, 1, Len(e) - 1), note |-> note]

\* The stub record for the entry e (lines 345-349, 411-415, 428-432).
Stub(e, note) == [type |-> "manuscript", title |-> e, note |-> note]

\* The k-th item of the list the LLM returned at its c-th call: a record of
\* the LLM's making, told from every other by its title.
LlmItem(c, k) ==
    [type |-> "book", title |-> Str("item ") \o <<Chr(48 + c), ".", Chr(48 + k)>>, note |-> "from the LLM"]

\* What a call of caller(messages) for a batch of b entries can do: raise
\* (network, HTTP, missing field), return text that is not JSON, return JSON
\* that is neither a list nor an object with a list in it, or return n items
\* as a bare list, under one of the known keys, or under another key.
Responses(b) ==
    {[shape |-> sh, n |-> 0] : sh \in {"raises", "invalid_json", "no_list"}}
      \cup {[shape |-> sh, n |-> n] : sh \in {"list", "known_key", "other_key"}, n \in 0..(b + 1)}

\* Lines 377-392: the items found in the parsed response of call c, or None.
ItemsOf(resp, c) ==
    IF \/ resp.shape \in {"list", "known_key"}
       \/ resp.shape = "other_key" /\ resp.n > 0
    THEN Some([k \in 1..resp.n |-> LlmItem(c, k)])
    ELSE None

\* Lines 365-366: batch = entries[i:i+batch_size].
BatchAt(start) ==
    SubSeq(entries, start + 1, IF start + batch_size < Len(entries)
                               THEN start + batch_size ELSE Len(entries))

\* Mutants of the handling of one batch: surplus items not cut off, and
\* the missing entries of an incomplete batch not recorded as failed.
BatchOutcomeNoTruncate(batch, resp, c) ==
    LET items == ItemsOf(resp, c)
    IN  IF resp.shape \in {"raises", "invalid_json"} \/ ~items.some
        THEN [results |-> [k \in 1..Len(batch) |-> Stub(batch[k], NoteFailed)],
              failed |-> batch]
        ELSE IF Len(items.val) < Len(batch)
        THEN [results |-> items.val \o [k \in 1..(Len(batch) - Len(items.val)) |->
                                            Stub(batch[Len(items.val) + k], NoteIncomplete)],
              failed |-> SubSeq(batch, Len(items.val) + 1, Len(batch))]
        ELSE [results |-> items.val, failed |-> <<>>]

BatchOutcomeMissingNotFailed(batch, resp, c) ==
    LET items == ItemsOf(resp, c)
    IN  IF resp.shape \in {"raises", "invalid_json"} \/ ~items.some
        THEN [results |-> [k \in 1..Len(batch) |-> Stub(batch[k], NoteFailed)],
              failed |-> batch]
        ELSE IF Len(items.val) < Len(batch)
        THEN [results |-> items.val \o [k \in 1..(Len(batch) - Len(items.val)) |->
                                            Stub(batch[Len(items.val) + k], NoteIncomplete)],
              failed |-> <<>>]
        ELSE [results |-> SubSeq(items.val, 1, Len(batch)), failed |-> <<>>]

\* Lines 372-432 for one batch and what call c did: what is added to
\* results and to failed.  A raised call, text that is not JSON (json.loads
\* raises) and JSON without items (ValueError, line 397) end in the except
\* clause of line 424.
BatchOutcome(batch, resp, c) ==
    LET items == ItemsOf(resp, c)
    IN  IF resp.shape \in {"raises", "invalid_json"} \/ ~items.some
        THEN [results |-> [k \in 1..Len(batch) |-> Stub(batch[k], NoteFailed)],
              failed |-> batch]
        ELSE IF Len(items.val) < Len(batch)
        THEN [results |-> items.val \o [k \in 1..(Len(batch) - Len(items.val)) |->
                                            Stub(batch[Len(items.val) + k], NoteIncomplete)],
              failed |-> SubSeq(batch, Len(items.val) + 1, Len(batch))]
        ELSE [results |-> SubSeq(items.val, 1, Len(batch)), failed |-> <<>>]

\* The largest batch size of the model (main leaves the default, 25, in
\* place; the model takes sizes small enough for several batches).
MaxBatchSize == 2

\* The entries handed over.
BatchEntrySet == {Str("Smith, Jane. 1950. T."), Str("Lee, J. 1955. U.")}

RECURSIVE BatchLists(_)
BatchLists(n) ==
    IF n = 0 THEN {<<>>}
    ELSE BatchLists(n - 1)
           \cup {Append(l, e) : l \in {m \in BatchLists(n - 1) : Len(m) = n - 1},
                                e \in BatchEntrySet}

\* The call batch_parse_with_llm(entries, provider, model, batch_size):
\* results = [], failed = [] (lines 339-340).
InitBatch ==
    /\ raw_text = <<>>
    /\ raw_blocks = <<>>
    /\ bi = 0
    /\ entries \in BatchLists(MaxEntries)
    /\ ei = 0
    /\ out = <<>>
    /\ prev_author = None
    /\ pc = "batch_start"
    /\ provider \in {None, Some(<<>>), Some(Str("openai")), Some(Str("openrouter")), Some(Str("other"))}
    /\ model \in {None, Some(<<>>), Some(Str("gpt-4o"))}
    /\ batch_size \in 1..MaxBatchSize
    /\ results = <<>>
    /\ failed = <<>>
    /\ batch_i = 0
    /\ api_key \in {None, Some(<<>>), Some(Str("sk-1"))}
    /\ llm_calls = <<>>
    /\ failed_file = None
    /\ HtmlIdle
    /\ MainIdle
    /\ ChatIdle

\* Line 342: not provider or not model.
StubMode == ~Truthy(provider) \/ ~Truthy(model)

\* Lines 342-350: without a provider or a model, a stub for every entry.
BatchStubs ==
    /\ pc = "batch_start"
    /\ StubMode
    /\ results' = [k \in 1..Len(entries) |-> Stub(entries[k], NoteRaw)]
    /\ pc' = "batch_done"
    /\ UNCHANGED <<raw_text, raw_blocks, bi, entries, ei, out, prev_author, html_vars, main_vars, chat_vars>>
    /\ UNCHANGED <<provider, model, batch_size, failed, batch_i, api_key, llm_calls, failed_file>>

\* Lines 352-363: SystemExit for a provider that is neither openai nor
\* openrouter, and for a key that is not set.
BatchExit ==
    /\ pc = "batch_start"
    /\ ~StubMode
    /\ provider.val \notin {Str("openai"), Str("openrouter")} \/ ~Truthy(api_key)
    /\ pc' = "batch_exit"
    /\ UNCHANGED <<raw_text, raw_blocks, bi, entries, ei, out, prev_author, llm_vars, html_vars, main_vars, chat_vars>>

\* Lines 352-361: the caller is chosen.
BatchConfigure ==
    /\ pc = "batch_start"
    /\ ~StubMode
    /\ provider.val \in {Str("openai"), Str("openrouter")}
    /\ Truthy(api_key)
    /\ pc' = "batch_loop"
    /\ UNCHANGED <<raw_text, raw_blocks, bi, entries, ei, out, prev_author, llm_vars, html_vars, main_vars, chat_vars>>

\* One iteration of the loop over the batches (lines 365-433): the call,
\* and the handling of what it did.
BatchCall ==
    /\ pc = "batch_loop"
    /\ batch_i < Len(entries)
    /\ \E resp \in Responses(Len(BatchAt(batch_i))) :
          LET o == BatchOutcome(BatchAt(batch_i), resp, Len(llm_calls) + 1)
          IN  /\ llm_calls' = Append(llm_calls, resp)
              /\ results' = results \o o.results
              /\ failed' = failed \o o.failed
    /\ batch_i' = batch_i + batch_size
    /\ UNCHANGED <<raw_text, raw_blocks, bi, entries, ei, out, prev_author, pc, html_vars, main_vars, chat_vars>>
    /\ UNCHANGED <<provider, model, batch_size, api_key, failed_file>>

\* Lines 435-452: failed_entries.txt written if an entry failed; return results.
BatchReturn ==
    /\ pc = "batch_loop"
    /\ batch_i >= Len(entries)
    /\ failed_file' = IF failed # <<>> THEN Some(failed) ELSE failed_file
    /\ pc' = "batch_done"
    /\ UNCHANGED <<raw_text, raw_blocks, bi, entries, ei, out, prev_author, html_vars, main_vars, chat_vars>>
    /\ UNCHANGED <<provider, model, batch_size, results, failed, batch_i, api_key, llm_calls>>

NextBatch == BatchStubs \/ BatchExit \/ BatchConfigure \/ BatchCall \/ BatchReturn

SpecBatch == InitBatch /\ [][NextBatch]_vars

----------------------------------------------------------------------------
(* main, after its first two stages: the cut to --max entries, the hand-over
   to batch_parse_with_llm, the write *)

\* batch_size as main leaves it: the default of line 337.
DefaultBatchSize == 25

\* --max N (argparse, type=int) or the number typed at the prompt.
MaxGiven(n) == [some |-> TRUE, val |-> n]

\* The values of N of the model: below zero, zero, up to and past the
\* number of entries.
MaxValues == (0 - 2)..(MaxEntries + 1)

\* Python's l[:n] for an integer n: the first n elements, and for n < 0 all
\* but the last -n.
SliceTo(l, n) ==
    LET stop == IF n < 0 THEN Len(l) + n ELSE n
    IN  SubSeq(l, 1, IF stop > Len(l) THEN Len(l) ELSE IF stop < 0 THEN 0 ELSE stop)

\* Lines 690-691: if max_entries: entries = entries[:max_entries].
Truncated(l, m) == IF m.some /\ m.val # 0 THEN SliceTo(l, m.val) ELSE l

\* main at line 690: entries holds what expand_repeated_authors returned
\* (kept in out); the options are read.
InitRun ==
    /\ raw_text = <<>>
    /\ raw_blocks = <<>>
    /\ bi = 0
    /\ out \in BatchLists(MaxEntries)
    /\ entries = out
    /\ ei = Len(out)
    /\ prev_author = None
    /\ pc = "expand_done"
    /\ provider \in {None, Some(Str("openai"))}
    /\ model \in {None, Some(Str("gpt-4o"))}
    /\ batch_size = DefaultBatchSize
    /\ results = <<>>
    /\ failed = <<>>
    /\ batch_i = 0
    /\ api_key \in {None, Some(Str("sk-1"))}
    /\ llm_calls = <<>>
    /\ failed_file = None
    /\ HtmlIdle
    /\ max_entries \in {NoMax} \cup {MaxGiven(n) : n \in MaxValues}
    /\ written = None
    /\ ChatIdle

\* Lines 690-695: the cut, and the call of batch_parse_with_llm.
MainTruncate ==
    /\ pc = "expand_done"
    /\ entries' = Truncated(entries, max_entries)
    /\ pc' = "batch_start"
    /\ UNCHANGED <<raw_text, raw_blocks, bi, ei, out, prev_author, llm_vars, html_vars, main_vars, chat_vars>>

\* Lines 697-702: the items batch_parse_with_llm returned are written.
MainWrite ==
    /\ pc = "batch_done"
    /\ written' = Some(results)
    /\ pc' = "main_done"
    /\ UNCHANGED <<raw_text, raw_blocks, bi, entries, ei, out, prev_author, llm_vars, html_vars>>
    /\ UNCHANGED <<max_entries, chat_vars>>

NextRun == MainTruncate \/ NextBatch \/ MainWrite

SpecRun == InitRun /\ [][NextRun]_vars

----------------------------------------------------------------------------
(* call_openai_chat and call_openrouter_chat: one chat call with its retries
   (the two functions differ in the URL only) *)

\* Lines 274-275 and 311-312.
max_retries == 3
base_delay == 2

\* What one requests.post and the reading of its response (lines 279-282)
\* can do: give the message content; raise Timeout or ConnectionError; raise
\* HTTPError from raise_for_status, with status 429 or another; raise
\* something else (a body that is not JSON or lacks choices[0].message.content,
\* another RequestException).
Outcomes ==
    {"content", "Timeout", "ConnectionError", "HTTPError 429", "HTTPError 401",
     "HTTPError 500", "other exception"}

\* The call call_openai_chat / call_openrouter_chat(model, messages, api_key).
InitChat ==
    /\ raw_text = <<>>
    /\ raw_blocks = <<>>
    /\ bi = 0
    /\ entries = <<>>
    /\ ei = 0
    /\ out = <<>>
    /\ prev_author = None
    /\ pc = "chat_try"
    /\ provider \in {Some(Str("openai")), Some(Str("openrouter"))}
    /\ model = Some(Str("gpt-4o"))
    /\ batch_size = 0
    /\ results = <<>>
    /\ failed = <<>>
    /\ batch_i = 0
    /\ api_key = Some(Str("sk-1"))
    /\ llm_calls = <<>>
    /\ failed_file = None
    /\ HtmlIdle
    /\ MainIdle
    /\ ChatIdle

\* Mutant of one attempt: every HTTPError is retried like a 429.
ChatAttemptRetriesHttp ==
    /\ pc = "chat_try"
    /\ attempt < max_retries
    /\ \E o \in Outcomes :
          /\ http_log' = Append(http_log, o)
          /\ IF o = "content"
             THEN pc' = "chat_returned" /\ UNCHANGED <<attempt, delays>>
             ELSE IF o # "other exception" /\ attempt < max_retries - 1
             THEN /\ delays' = Append(delays, base_delay * (2 ^ attempt))
                  /\ attempt' = attempt + 1
                  /\ pc' = pc
             ELSE pc' = "chat_raised" /\ UNCHANGED <<attempt, delays>>
    /\ UNCHANGED <<raw_text, raw_blocks, bi, entries, ei, out, prev_author, llm_vars, html_vars, main_vars>>

\* One iteration of the loop (lines 277-297, 314-334): the request, and the
\* return, the sleep before the next attempt, or the raise.
ChatAttempt ==
    /\ pc = "chat_try"
    /\ attempt < max_retries
    /\ \E o \in Outcomes :
          /\ http_log' = Append(http_log, o)
          /\ IF o = "content"
             THEN pc' = "chat_returned" /\ UNCHANGED <<attempt, delays>>
             ELSE IF /\ o \in {"Timeout", "ConnectionError", "HTTPError 429"}
                     /\ attempt < max_retries - 1
             THEN /\ delays' = Append(delays, base_delay * (2 ^ attempt))
                  /\ attempt' = attempt + 1
                  /\ pc' = pc
             ELSE pc' = "chat_raised" /\ UNCHANGED <<attempt, delays>>
    /\ UNCHANGED <<raw_text, raw_blocks, bi, entries, ei, out, prev_author, llm_vars, html_vars, main_vars>>

NextChat == ChatAttempt

SpecChat == InitChat /\ [][NextChat]_vars

----------------------------------------------------------------------------
(* Claims about split_entries, checked under SpecSplit *)

SplitRunning == pc \in {"split_loop", "split_done"}

\* The raw text of the block-splitting boundary example.
BoundaryRaw == Str("Entry One.\n\n\n\nEntry\nTwo continued.")

\* C1, as stated: for the raw text "Entry One.\n\n\n\nEntry\nTwo continued."
\* split_entries returns exactly the two entries "Entry One." and
\* "Entry Two continued.", in that order.
C1_TwoEntriesReturned ==
    (raw_text = BoundaryRaw /\ pc = "split_done")
        => entries = <<Str("Entry One."), Str("Entry Two continued.")>>

\* C1, amended: the text is cut into exactly the two blocks "Entry One." and
\* "Entry\nTwo continued.", and split_entries returns exactly one entry,
\* "Entry Two continued." (the line feed flattened to a space): "Entry One."
\* has 10 characters and no 4-digit sequence, so the short-block filter drops it.
C1_BoundaryExample ==
    (raw_text = BoundaryRaw /\ SplitRunning)
        => /\ raw_blocks = <<Str("Entry One."), Str("Entry\nTwo continued.")>>
           /\ pc = "split_done" => entries = <<Str("Entry Two continued.")>>

C1_Witness == raw_text = BoundaryRaw /\ pc = "split_done" /\ Len(entries) = 1

\* C4: no entry in the output of split_entries is empty or made of white
\* space only (at every point of the loop, and so in what is returned).
C4_NoBlankEntries ==
    \A k \in 1..Len(entries) : Strip(entries[k]) # <<>>

\* A returned list with an entry in it, from a text that had a blank block.
C4_Witness ==
    /\ pc = "split_done"
    /\ Len(entries) >= 1
    /\ \E k \in 1..Len(raw_blocks) : Strip(raw_blocks[k]) = <<>>

\* The flattened text of the block the loop of split_entries handles next.
NextFlat == Flatten(Strip(raw_blocks[bi + 1]))

SplitStepping == pc = "split_loop" /\ bi < Len(raw_blocks)

\* C10, as stated: every flattened block shorter than 20 characters that
\* contains a 4-digit sequence is kept in the output, and every flattened
\* block shorter than 20 characters that contains none is dropped.
C10_ShortBlocksByYear ==
    [][ (SplitStepping /\ Len(NextFlat) < MinEntryLen)
          => IF HasFourDigits(NextFlat)
             THEN entries' = Append(entries, NextFlat)
             ELSE entries' = entries ]_vars

\* C10, amended: a flattened block shorter than 20 characters that contains
\* a 4-digit sequence is kept unless it starts with a navigation word
\* ("Doe, J. 1999." is kept, "Map 1999" is dropped); one that contains no
\* 4-digit sequence is dropped.
C10_ShortBlocksByYearAndLabel ==
    [][ (SplitStepping /\ Len(NextFlat) < MinEntryLen)
          => IF HasFourDigits(NextFlat) /\ ~IsNavLabel(NextFlat)
             THEN entries' = Append(entries, NextFlat)
             ELSE entries' = entries ]_vars

\* The loop has kept a short block with a year and dropped a short block
\* with a year that starts with a navigation word.
C10_Witness ==
    /\ SplitRunning
    /\ bi = 2
    /\ Flatten(raw_blocks[1]) = Str("Map 1999")
    /\ Flatten(raw_blocks[2]) = Str("Doe, J. 1999.")
    /\ entries = <<Str("Doe, J. 1999.")>>

\* t starts, whatever the case of its letters, with the text p.
StartsWithIgnoringCase(t, p) ==
    /\ Len(t) >= Len(p)
    /\ \A k \in 1..Len(p) : LowerChar(t[k]) = LowerChar(p[k])

\* t starts with the search phrase, or with a navigation word that white
\* space or the end of t follows.
StartsWithBoilerplate(t) ==
    \/ StartsWithIgnoringCase(t, Str("Search using this query type"))
    \/ \E w \in NavWords :
          /\ StartsWithIgnoringCase(t, w)
          /\ Len(t) = Len(w) \/ t[Len(w) + 1] \in Space

\* Blocks that are citations: neither boilerplate nor short and yearless.
CitationBlocks ==
    { Str("Entry\nTwo continued."), Str("Doe, J. 1999."),
      Str("Smith, Jane. A Title."), Str("Homer, A. 1950. Iliad.") }

\* C11: no entry in the output of split_entries starts, in any case of its
\* letters, with "search using this query type" or with one of the words
\* home, about, browse, search, contact, map, essay(s), collection(s)
\* followed by white space or the end; and for a raw text made of a block
\* "Home", a separator of three or more line feeds and a citation block,
\* the output is the citation, flattened.
C11_NoBoilerplateEntries ==
    /\ \A k \in 1..Len(entries) : ~StartsWithBoilerplate(entries[k])
    /\ ( /\ pc = "split_done"
         /\ Len(raw_blocks) = 2
         /\ raw_blocks[1] = Str("Home")
         /\ raw_blocks[2] \in CitationBlocks )
        => entries = <<Flatten(raw_blocks[2])>>

\* "Home", then a citation that itself starts with the letters of "home".
C11_Witness ==
    /\ pc = "split_done"
    /\ Len(raw_blocks) = 2
    /\ raw_blocks[1] = Str("Home")
    /\ entries = <<Str("Homer, A. 1950. Iliad.")>>

\* C14: split_entries returns a sequence without raising for every string:
\* a call is only ever at its start, in its loop or returned, the loop never
\* runs past the last block, every step of a call moves it on (into the
\* loop, one block further, or to the return), and what is returned is a
\* sequence; for the empty string and for every text made only of white
\* space and line breaks the sequence returned is empty.
C14_ReturnsAndEmptyForBlank ==
    /\ []( /\ pc \in {"split_start", "split_loop", "split_done"}
           /\ bi <= Len(raw_blocks)
           /\ entries \in Seq(Seq(STRING)) )
    /\ []( (pc = "split_done" /\ \A k \in 1..Len(raw_text) : raw_text[k] \in Space)
             => entries = <<>> )
    /\ [][ \/ pc = "split_start" /\ pc' = "split_loop"
           \/ pc = "split_loop" /\ pc' = "split_loop" /\ bi' = bi + 1
           \/ pc = "split_loop" /\ bi = Len(raw_blocks) /\ pc' = "split_done" ]_vars

\* A text of white space and line breaks that is cut into two blocks, and
\* the call on it returned.
C14_Witness ==
    /\ pc = "split_done"
    /\ Len(raw_text) > 0
    /\ \A k \in 1..Len(raw_text) : raw_text[k] \in Space
    /\ Len(raw_blocks) = 2
    /\ entries = <<>>

\* The text s with every line feed replaced by the text nl.
IsChar(c) == c # EOS
LineFeedsAs(s, nl) ==
    LET wide == [k \in 1..(2 * Len(s)) |->
                    LET c == s[(k + 1) \div 2]
                    IN  IF c # "\n" THEN (IF k % 2 = 1 THEN c ELSE EOS)
                        ELSE IF k % 2 = 1 THEN nl[1]
                        ELSE At(nl, 2)]
    IN  SelectSeq(wide, IsChar)

\* The text s with the ordinary spaces at the indices of S replaced by
\* non-breaking spaces.
NbspAt(s, S) == [k \in 1..Len(s) |-> IF k \in S /\ s[k] = " " THEN NBSP ELSE s[k]]

\* C15: for a raw text without carriage returns, split_entries returns the
\* same sequence for the text itself, for the text with every line feed
\* replaced by CR LF, for the text with every line feed replaced by a lone
\* CR, and for the text with any one, or with all, of its ordinary spaces
\* replaced by a non-breaking space.
C15_LineEndingAndNbspInsensitive ==
    (pc = "split_done" /\ \A k \in 1..Len(raw_text) : raw_text[k] # "\r")
        => /\ entries = SplitEntries(raw_text)
           /\ entries = SplitEntries(LineFeedsAs(raw_text, Str("\r\n")))
           /\ entries = SplitEntries(LineFeedsAs(raw_text, Str("\r")))
           /\ entries = SplitEntries(NbspAt(raw_text, 1..Len(raw_text)))
           /\ \A k \in {h \in 1..Len(raw_text) : raw_text[h] = " "} :
                 entries = SplitEntries(NbspAt(raw_text, {k}))

\* A text of two blocks without carriage returns, with line feeds and
\* spaces inside its blocks, both blocks kept.
C15_Witness ==
    /\ pc = "split_done"
    /\ \A k \in 1..Len(raw_text) : raw_text[k] # "\r"
    /\ Len(entries) = 2
    /\ \E k \in 1..Len(raw_blocks[1]) : raw_blocks[1][k] = "\n"
    /\ \E k \in 1..Len(raw_blocks[2]) : raw_blocks[2][k] = " "

\* C16: the flattening of a block is idempotent: flattening the flattened
\* text of any block gives that text again, and every entry in the output
\* of split_entries is a fixed point of the flattening.
C16_FlattenIdempotent ==
    /\ \A k \in 1..Len(raw_blocks) :
          Flatten(Flatten(raw_blocks[k])) = Flatten(raw_blocks[k])
    /\ \A k \in 1..Len(entries) : Flatten(entries[k]) = entries[k]

\* An entry made from a block that had a run of three or more white space
\* characters inside and white space to collapse.
C16_Witness ==
    /\ pc = "split_done"
    /\ Len(entries) = 1
    /\ \E k \in 1..(Len(raw_blocks[1]) - 2) :
          \A d \in 0..2 : raw_blocks[1][k + d] \in Space
    /\ entries[1] # raw_blocks[1]

\* The raw text as split_entries cuts it: non-breaking spaces and line
\* endings normalised.
NormalizedText == NormalizeLineEndings(ReplaceNbsp(raw_text))

\* The line feed at index k of t stands in a run of three or more line feeds.
InLongRun(t, k) ==
    LET Before == {0} \cup {j \in 1..(k - 1) : t[j] # "\n"}
        first == 1 + CHOOSE j \in Before : \A h \in Before : h <= j
    IN  t[k] = "\n" /\ SpanEnd(t, k, {"\n"}) - first + 1 >= 3

\* The number of runs of three or more line feeds in t, and t without them.
LongRuns(t) ==
    Cardinality({k \in 1..Len(t) : InLongRun(t, k) /\ At(t, k - 1) # "\n"})
OutsideLongRun(p) == ~p[2]
WithoutLongRuns(t) ==
    LET kept == SelectSeq([k \in 1..Len(t) |-> <<t[k], InLongRun(t, k)>>], OutsideLongRun)
    IN  [k \in 1..Len(kept) |-> kept[k][1]]

RECURSIVE Joined(_)
Joined(blocks) == IF blocks = <<>> THEN <<>> ELSE Head(blocks) \o Joined(Tail(blocks))

\* C22: split_entries cuts the normalized text at the runs of three or more
\* line feeds and nowhere else: there is one block more than there are such
\* runs, the blocks in order are the text without those runs, and no block
\* holds such a run or starts or ends at a line feed; what a single or a
\* double line feed separates stays in one block, and a block is kept whole,
\* flattened, as one entry, or dropped whole; a text without such a run
\* yields at most one entry.
C22_CutsOnlyAtLongRuns ==
    SplitRunning =>
        /\ Len(raw_blocks) = LongRuns(NormalizedText) + 1
        /\ Joined(raw_blocks) = WithoutLongRuns(NormalizedText)
        /\ \A b \in 1..Len(raw_blocks) :
              /\ LongRuns(raw_blocks[b]) = 0
              /\ Len(raw_blocks) > 1 =>
                    /\ b > 1 => At(raw_blocks[b], 1) # "\n"
                    /\ b < Len(raw_blocks) => At(raw_blocks[b], Len(raw_blocks[b])) # "\n"
        /\ Len(entries) <= bi
        /\ \A k \in 1..Len(entries) :
              \E b \in 1..bi : entries[k] = Flatten(raw_blocks[b])
        /\ LongRuns(NormalizedText) = 0 => Len(entries) <= 1

\* A text with one line feed inside its first part and four line feeds
\* before its second: two entries, the line feed inside flattened.
C22_Witness ==
    /\ pc = "split_done"
    /\ raw_text = Str("Entry\nTwo continued.\n\n\n\nDoe, J. 1999.")
    /\ entries = <<Str("Entry Two continued."), Str("Doe, J. 1999.")>>

\* The flattened blocks with the indices of S, in the order of the source.
RECURSIVE FlatBlocks(_)
FlatBlocks(S) ==
    IF S = {} THEN <<>>
    ELSE LET m == CHOOSE x \in S : \A y \in S : y <= x
         IN  Append(FlatBlocks(S \ {m}), Flatten(raw_blocks[m]))

\* C12: the output of split_entries is a subsequence of the flattened blocks
\* in source order: there is a set of blocks among those consumed, each
\* giving exactly one entry, whose flattened texts in the order of the raw
\* text are the entries; and each iteration leaves the list as it is or
\* appends the flattened text of its block at the end.
C12_SubsequenceInOrder ==
    /\ [](SplitRunning => \E S \in SUBSET (1..bi) : entries = FlatBlocks(S))
    /\ [][ SplitStepping => entries' \in {entries, Append(entries, NextFlat)} ]_vars

\* Two different blocks, both kept, in the order of the raw text.
C12_Witness ==
    /\ pc = "split_done"
    /\ Len(raw_blocks) = 2
    /\ entries = <<Flatten(raw_blocks[1]), Flatten(raw_blocks[2])>>
    /\ entries[1] # entries[2]

----------------------------------------------------------------------------
(* Claims about expand_repeated_authors, checked under Spec *)

ExpandRunning == pc \in {"expand_loop", "expand_done"}
ExpandStepping == pc = "expand_loop" /\ ei < Len(entries)

\* The entry the loop handles next, and what follows its ditto marker and
\* the marker's optional period.
NextEntry == entries[ei + 1]
AfterMarker(e) == From(e, MarkerEnd(e) + 1)

\* Some extraction pattern matches e.
PatternMatches(e) == Pattern1End(e) > 0 \/ Pattern2End(e) > 0 \/ Pattern3End(e) > 0

\* re.search(r'\d{4}[a-z]?\s+\d{4}', t): two years in a row (the check of
\* tests/test_fixes_on_real_data.py).
HasAccumulatedYears(t) ==
    \E i \in 1..Len(t), o \in {0, 1} :
        LET j == i + 4 + o
            w == SpanEnd(t, j, Space)
        IN  /\ \A k \in 0..3 : At(t, i + k) \in Digit
            /\ o = 1 => At(t, i + 4) \in Lower
            /\ w >= j
            /\ \A k \in 1..4 : At(t, w + k) \in Digit

\* The input has the shape of the ditto resolution scenario: a first entry
\* "Surname, Given. YEAR. rest", then only entries "______. YEAR[a-z]?. rest".
DittoScenario ==
    /\ Len(entries) >= 1
    /\ entries[1] \in FirstForm
    /\ \A k \in 2..Len(entries) : entries[k] \in DittoForm

\* The "Surname, Given" a first-form entry was written with.
FirstAuthor(e) == CHOOSE n \in Names : e = n \o FirstRest

\* C2: on an input whose first entry is "Surname, Given. YEAR. rest" and
\* whose other entries are "______. YEAR[a-z]?. rest", the function returns,
\* the first entry is unchanged and every ditto entry becomes
\* "Surname, Given" followed by its own ". YEAR[a-z]?. rest", the same author
\* at every position; no output entry holds two years in a row.
C2_DittoScenarioResolved ==
    DittoScenario =>
        /\ pc # "expand_raised"
        /\ pc = "expand_done" => Len(out) = Len(entries)
        /\ \A k \in 1..Len(out) :
              /\ out[k] = IF k = 1 THEN entries[1]
                          ELSE FirstAuthor(entries[1]) \o From(entries[k], Len(DittoMark) + 1)
              /\ ~HasAccumulatedYears(out[k])

\* The scenario itself: an author entry, then two different ditto entries,
\* both rewritten.
C2_Witness ==
    /\ pc = "expand_done"
    /\ DittoScenario
    /\ Len(entries) = 3
    /\ entries[2] # entries[3]
    /\ out[2] # entries[2]
    /\ out[3] # entries[3]

\* C3: when the function returns, the output is as long as the input, and
\* during the loop as long as the part of the input consumed; the k-th
\* output entry comes from the k-th input entry: it is that entry, or, for
\* an entry that starts with a ditto marker, a text that ends with what
\* follows the marker in that entry.
C3_SameLengthAndOrder ==
    ExpandRunning =>
        /\ Len(out) = ei
        /\ pc = "expand_done" => Len(out) = Len(entries)
        /\ \A k \in 1..Len(out) :
              \/ out[k] = entries[k]
              \/ DittoMatch(entries[k]) /\ EndsWith(out[k], AfterMarker(entries[k]))

\* A returned list of three entries, one of them rewritten and one a ditto
\* entry left as it was.
C3_Witness ==
    /\ pc = "expand_done"
    /\ Len(entries) = 3
    /\ \E k \in 1..3 : out[k] # entries[k]
    /\ \E k \in 1..3 : DittoMatch(out[k])

\* C5: expand_repeated_authors never raises, whatever characters the
\* entries and the remembered author contain.
C5_NeverRaises == pc # "expand_raised"

\* C6: whenever an entry starts with a ditto marker and lastAuthor is set,
\* the output entry is exactly lastAuthor, a period, and what follows the
\* marker and its optional period in the input entry.
C6_AuthorInsertedVerbatim ==
    [][ (ExpandStepping /\ DittoMatch(NextEntry) /\ Truthy(prev_author))
          => out' = Append(out, prev_author.val \o <<".">> \o AfterMarker(NextEntry)) ]_vars

\* C7: an entry that starts with a ditto marker and is handled while no
\* author has been extracted yet (prev_author is None) is appended to the
\* output unchanged.
C7_OrphanDittoUnchanged ==
    [][ (ExpandStepping /\ DittoMatch(NextEntry) /\ ~prev_author.some)
          => out' = Append(out, NextEntry) ]_vars

\* A leading ditto entry, emitted as it was, before any author is known.
C7_Witness ==
    /\ ExpandRunning
    /\ ei >= 1
    /\ DittoMatch(entries[1])
    /\ out[1] = entries[1]

\* C8: during a pass prev_author changes only when an extraction pattern
\* matches the current entry, and once it holds an author it never becomes
\* unset or empty again.
C8_AuthorNeverCleared ==
    [][ (ExpandStepping /\ pc' = "expand_loop")
          => /\ prev_author' # prev_author => PatternMatches(out'[ei + 1])
             /\ Truthy(prev_author) => Truthy(prev_author') ]_vars

\* C9: an output entry starts with a ditto marker only if lastAuthor was
\* still unset when the entry was handled.
C9_NoDittoAfterAuthor ==
    [][ (ExpandStepping /\ pc' = "expand_loop" /\ DittoMatch(out'[ei + 1]))
          => ~prev_author.some ]_vars

\* Pattern 3, the fallback, is the pattern that applies to e.
FallbackApplies(e) == Pattern1End(e) = 0 /\ Pattern2End(e) = 0 /\ Pattern3End(e) > 0

\* t is white space followed by a 4-digit year with or without a lowercase
\* letter; and t ends with such a year.
IsYearTail(t) == t # <<>> /\ YearSuffixEnd(t, 1) = Len(t)
EndsWithYear(t) == \E k \in 1..Len(t) : IsYearTail(From(t, k))

----------------------------------------------------------------------------
(* Claims about main's two stages in a row, checked under SpecMain *)

\* t is a flattened, single-line citation candidate: not empty, no line
\* break, no white space at its ends, no two white space characters in a row.
SingleLine(t) ==
    /\ t # <<>>
    /\ \A k \in 1..Len(t) : t[k] \notin {"\n", "\r"}
    /\ t[1] \notin Space /\ t[Len(t)] \notin Space
    /\ \A k \in 1..(Len(t) - 1) : ~(t[k] \in Space /\ t[k + 1] \in Space)

\* C13: for every raw text, each entry of
\* expand_repeated_authors(split_entries(raw)) is non-empty, contains no
\* line break, has no leading or trailing white space and no run of two or
\* more white space characters.
C13_SingleLineEntries ==
    pc = "expand_done" => \A k \in 1..Len(out) : SingleLine(out[k])

----------------------------------------------------------------------------
(* Claims about fetch_entries_from_html, checked under SpecFetch *)

\* C17: the paragraph-iterating segmentation applies the filters of
\* split_entries: whenever its loop handles a paragraph, it keeps the
\* paragraph's text if and only if split_entries keeps the same text as a
\* block, and keeps it as the same flattened text.
C17_SameFiltersAsSplit ==
    [][ (pc = "fetch_loop" /\ si < Len(siblings) /\ siblings[si + 1].name = "p")
          => entries' = entries \o BlockEntries(siblings[si + 1].texts[1]) ]_vars

----------------------------------------------------------------------------
(* Claims about batch_parse_with_llm, checked under SpecBatch *)

\* The call runs, or has returned, in LLM mode: a provider and a model are
\* given and the loop over the batches was entered.
LlmMode == pc \in {"batch_loop", "batch_done"} /\ ~StubMode

\* r is a stub made by the program for the entry e.
IsStubFor(r, e) ==
    r.type = "manuscript" /\ r.title = e /\ r.note \in {NoteRaw, NoteIncomplete, NoteFailed}

\* The call that covered the j-th entry, and the entry's place in its batch.
CallOf(j) == ((j - 1) \div batch_size) + 1
PlaceOf(j) == ((j - 1) % batch_size) + 1

\* The response carried a list of items.
HasItems(resp) == resp.shape \in {"list", "known_key", "other_key"}

\* C18: in LLM mode there is one call per batch and one record per entry
\* of every batch handled so far, in input order, whatever the calls did,
\* and on return one record per input entry: the record at position j is the
\* item the LLM returned at the entry's place in its batch, if the response
\* had an item at that place, and else a stub whose title is the j-th entry
\* (missing trailing items, a failed call, a response that does not parse);
\* surplus items appear nowhere.
C18_OneRecordPerEntry ==
    LlmMode =>
        /\ Len(llm_calls) * batch_size = batch_i
        /\ Len(results) = IF batch_i < Len(entries) THEN batch_i ELSE Len(entries)
        /\ pc = "batch_done" => Len(results) = Len(entries)
        /\ \A j \in 1..Len(results) :
              LET resp == llm_calls[CallOf(j)]
              IN  IF HasItems(resp) /\ PlaceOf(j) <= resp.n
                  THEN results[j] = LlmItem(CallOf(j), PlaceOf(j))
                  ELSE IsStubFor(results[j], entries[j])

\* Three entries in batches of two: the first call fails, the second
\* returns two items for the one entry left, and the call has returned.
C18_Witness ==
    /\ LlmMode
    /\ pc = "batch_done"
    /\ Len(entries) = 3
    /\ batch_size = 2
    /\ llm_calls[1].shape = "raises"
    /\ llm_calls[2] = [shape |-> "known_key", n |-> 2]
    /\ results[3] = LlmItem(2, 1)

\* C19: without a provider or without a model no LLM call is made, and the
\* call returns, for every entry in order, a minimal record whose title is
\* the entry verbatim; no entry is recorded as failed and failed_entries.txt
\* is not written.
C19_StubModeVerbatim ==
    StubMode =>
        /\ llm_calls = <<>>
        /\ failed = <<>>
        /\ failed_file = None
        /\ pc \notin {"batch_loop", "batch_exit"}
        /\ pc = "batch_done" =>
              /\ Len(results) = Len(entries)
              /\ \A k \in 1..Len(entries) :
                    results[k].type = "manuscript" /\ results[k].title = entries[k]

\* A provider but no model, three entries, returned.
C19_Witness ==
    /\ pc = "batch_done"
    /\ Truthy(provider)
    /\ ~Truthy(model)
    /\ Len(entries) = 3
    /\ Len(results) = 3

\* The entries whose record is a stub made by the program, in order.
IsStubAt(j) == results[j].type = "manuscript"
StubbedEntries ==
    LET at == SelectSeq([j \in 1..Len(results) |-> j], IsStubAt)
    IN  [k \in 1..Len(at) |-> entries[at[k]]]

\* C20: in LLM mode the entries recorded as failed are exactly the entries
\* whose record is a stub made by the program, in processing order;
\* failed_entries.txt is not written before the return, and on return it is
\* written exactly when an entry failed, and lists all the failed entries
\* in that order.
C20_FailedIffStub ==
    LlmMode =>
        /\ failed = StubbedEntries
        /\ pc = "batch_loop" => failed_file = None
        /\ pc = "batch_done" =>
              failed_file = IF failed = <<>> THEN None ELSE Some(StubbedEntries)

\* A run with an incomplete batch and a complete one: one entry failed, and
\* the file lists it.
C20_Witness ==
    /\ LlmMode
    /\ pc = "batch_done"
    /\ Len(entries) = 3
    /\ batch_size = 2
    /\ llm_calls[1] = [shape |-> "list", n |-> 1]
    /\ llm_calls[2] = [shape |-> "list", n |-> 1]
    /\ failed_file = Some(<<entries[2]>>)

----------------------------------------------------------------------------
(* Claims about main's cut to a maximum, checked under SpecRun *)

\* min(n, m)
Min(n, m) == IF n < m THEN n ELSE m

\* C21: when a maximum N is given, the entries passed on are the first
\* min(N, total) entries of the expanded sequence, and min(N, total) items
\* are written, for every integer N the option accepts.
C21_FirstNProcessed ==
    max_entries.some =>
        /\ pc \notin {"expand_done"} =>
              /\ Len(entries) = Min(max_entries.val, Len(out))
              /\ entries = SubSeq(out, 1, Len(entries))
        /\ pc = "main_done" => Len(written.val) = Min(max_entries.val, Len(out))

----------------------------------------------------------------------------
(* Claims about call_openai_chat / call_openrouter_chat, checked under SpecChat *)

\* The failures after which another attempt is made.
Retryable == {"Timeout", "ConnectionError", "HTTPError 429"}

\* C24: one call sends at most 3 requests and ends by returning the content
\* or raising: while it runs fewer than 3 requests were sent, so that each
\* step sends one more and the third ends it; every request before the last
\* failed with a timeout, a connection error or an HTTP 429; the call has
\* returned exactly when the last request gave the content; any other
\* failure, and the failure of the third request, has raised at once.
C24_AtMostThreeRequests ==
    /\ Len(http_log) <= 3
    /\ pc \in {"chat_try", "chat_returned", "chat_raised"}
    /\ pc = "chat_try" => attempt = Len(http_log) /\ Len(http_log) < 3
    /\ \A k \in 1..(Len(http_log) - 1) : http_log[k] \in Retryable
    /\ Len(http_log) > 0 =>
          LET last == http_log[Len(http_log)]
          IN  /\ pc = "chat_returned" <=> last = "content"
              /\ (last \notin Retryable \cup {"content"}) => pc = "chat_raised"
              /\ (Len(http_log) = 3 /\ last # "content") => pc = "chat_raised"
              /\ pc = "chat_raised" =>
                    last # "content" /\ (last \notin Retryable \/ Len(http_log) = 3)

\* Three requests, a timeout, a 429 and a connection error: raised.
C24_Witness ==
    /\ pc = "chat_raised"
    /\ http_log = <<"Timeout", "HTTPError 429", "ConnectionError">>

\* C25: on consecutive retryable failures the call waits before each
\* following attempt with exponential backoff: after the k-th retryable
\* failure in a row the k-th delay has been slept, and the delays are 2s, 4s
\* and 8s.
C25_BackoffDelays ==
    /\ \A k \in 1..Len(http_log) :
          http_log[k] \in Retryable => Len(delays) >= k /\ delays[k] = 2 ^ k
    /\ (Len(http_log) = 3 /\ \A k \in 1..3 : http_log[k] \in Retryable)
          => delays = <<2, 4, 8>>


(* C26: a substituted ditto entry leaves lastAuthor as it was, so every    *)
(* ditto entry of a run is expanded with the author of the entry before    *)
(* the run, whatever text follows the marker.                              *)
C26_DittoKeepsAuthor ==
  [][ (ExpandStepping /\ DittoMatch(NextEntry) /\ Truthy(prev_author)
         /\ pc' = "expand_loop")
        => prev_author' = prev_author ]_vars

(* C27: an entry that does not start with a ditto marker is emitted        *)
(* unchanged, and the only edit ever made to an entry replaces its leading *)
(* ditto marker and optional period: each completed iteration appends one  *)
(* entry to the output, equal to the input entry when the ditto pattern    *)
(* does not match, and ending with everything that followed the marker     *)
(* when it does.                                                           *)
C27_OnlyMarkerReplaced ==
  [][ (ExpandStepping /\ pc' = "expand_loop")
        => /\ Len(out') = Len(out) + 1
           /\ SubSeq(out', 1, Len(out)) = out
           /\ ~DittoMatch(NextEntry) => out'[ei + 1] = NextEntry
           /\ DittoMatch(NextEntry) => EndsWith(out'[ei + 1], AfterMarker(NextEntry)) ]_vars

\* A run in which an entry that starts with underscores but is no ditto
\* entry came out unchanged after an author was found, and the ditto entry
\* after it was rewritten.
C27_Witness ==
    /\ pc = "expand_done"
    /\ Len(entries) = 3
    /\ PatternMatches(entries[1])
    /\ MarkerLen(entries[2]) > 0 /\ ~DittoMatch(entries[2])
    /\ out[2] = entries[2]
    /\ DittoMatch(entries[3])
    /\ out[3] # entries[3]
    /\ EndsWith(out[3], AfterMarker(entries[3]))

\* expand_repeated_authors as a function of its argument: the loop of lines
\* 208-238 from entry k on, with prev_author = prev and out = acc; Raised
\* when re.sub raises.
RECURSIVE ExpandFrom(_, _, _, _)
ExpandFrom(es, k, prev, acc) ==
    IF k > Len(es) THEN Ok(acc)
    ELSE LET r == Substituted(prev, es[k])
         IN  IF r.ok
             THEN ExpandFrom(es, k + 1, ExtractAuthor(prev, r.val), Append(acc, r.val))
             ELSE Raised
expand_repeated_authors(es) == ExpandFrom(es, 1, None, <<>>)

(* C28: expand_repeated_authors is idempotent: when it returns, applying   *)
(* it to the list it returned returns that list unchanged.                 *)
C28_Idempotent ==
    pc = "expand_done" => expand_repeated_authors(out) = Ok(out)
====
